---- MODULE Spec2Model ----
(***************************************************************************)
(* Model of pbp/solvers.py: the combination search fit_n_bins and the      *)
(* three solver strategies (SolverLengthFirst, SolverCapacityFirst,        *)
(* SolverCombo) that call it with increasing combination lengths.          *)
(*                                                                         *)
(* One solver instance of every solver type is created (create_solver)     *)
(* for the same (load, bins); the instances share no state and each runs   *)
(* its own solve() loop, one loop iteration per step.                      *)
(***************************************************************************)
EXTENDS Integers, Sequences, FiniteSets, TLC

\* ---------------------------------------------------------------- bounds
\* Largest load drawn as input.
MaxLoad == 11

\* Largest number of bins drawn as input.
MaxBins == 3

\* Smallest capacity in BinValues.
MinPosBin == 2

\* Positive capacities the bins are drawn from.
BinValues == {MinPosBin, 3, 5}

\* Cap on the combination length a solve() loop may reach.  With positive
\* capacities every load <= MaxLoad is covered by MaxLoad \div MinPosBin + 1
\* bins, and SolverCombo looks one length further.
MaxN == (MaxLoad \div MinPosBin) + 2

SolverTypes == {"length", "capacity", "combo"}

\* Inputs: every sequence of at most MaxBins positive capacities (the empty
\* one included), and the degenerate all-zero sequences.
PositiveSeqs == UNION {[1..m -> BinValues] : m \in 0..MaxBins}
ZeroSeqs == {[i \in 1..m |-> 0] : m \in 1..MaxBins}
BinSeqs == PositiveSeqs \cup ZeroSeqs

VARIABLES
    load,        \* SolverBase._load (shared input of the three instances)
    bins,        \* SolverBase._bins
    pc,          \* position of each instance's solve(): "start","loop","done"
    n,           \* local n of each solve()
    combos,      \* local combos (combos_n for "combo") of each solve()
    combos_np1,  \* local combos_np1 of SolverCombo.solve()
    result       \* value returned by each solve()

vars == <<load, bins, pc, n, combos, combos_np1, result>>

\* ------------------------------------------------------------ pure helpers
\* Python's sum() over a tuple.
RECURSIVE sum(_)
sum(t) == IF Len(t) = 0 THEN 0 ELSE Head(t) + sum(Tail(t))

\* Assignment to a local variable: v is evaluated once and Body reads its
\* value.
Bind(v, Body(_)) == CHOOSE out \in {Body(c) : c \in {v}} : TRUE

\* Prepend x to every tuple of the sequence cs.
PrependAll(x, cs) ==
    Bind(cs, LAMBDA c : [j \in 1..Len(c) |-> <<x>> \o c[j]])

\* itertools.combinations_with_replacement(bs, r), restricted to positions
\* >= i: the tuples of r elements at non-decreasing positions of bs, in
\* lexicographic order of the positions.
RECURSIVE combinations_with_replacement(_, _, _)
combinations_with_replacement(bs, r, i) ==
    IF r = 0 THEN << <<>> >>
    ELSE IF i > Len(bs) THEN << >>
    ELSE PrependAll(bs[i], combinations_with_replacement(bs, r - 1, i))
         \o combinations_with_replacement(bs, r, i + 1)

\* capacity_min = float("inf") is the record with inf = TRUE.
Infinity == [inf |-> TRUE, v |-> 0]

\* capacity_min > capacity
GreaterThan(capacity_min, capacity) ==
    capacity_min.inf \/ capacity_min.v > capacity

\* capacity_min == capacity
EqualTo(capacity_min, capacity) ==
    ~capacity_min.inf /\ capacity_min.v = capacity

\* Variant of fit_loop_body that keeps only the first combination of the
\* minimum capacity (ties are dropped).
fit_loop_body_first(ld, combination, st) ==
    Bind(sum(combination), LAMBDA capacity :
        IF capacity < ld THEN st
        ELSE IF GreaterThan(st.capacity_min, capacity)
             THEN [capacity_min |-> [inf |-> FALSE, v |-> capacity],
                   combos |-> <<combination>>]
        ELSE st)

\* Variant of fit_loop_body that appends every later combination that can
\* accommodate the load, whatever its capacity.
fit_loop_body_all(ld, combination, st) ==
    Bind(sum(combination), LAMBDA capacity :
        IF capacity < ld THEN st
        ELSE IF GreaterThan(st.capacity_min, capacity)
             THEN [capacity_min |-> [inf |-> FALSE, v |-> capacity],
                   combos |-> <<combination>>]
        ELSE [st EXCEPT !.combos = Append(@, combination)])

\* One pass of the body of the for loop of fit_n_bins over one combination;
\* st = [capacity_min, combos].
fit_loop_body(ld, combination, st) ==
    Bind(sum(combination), LAMBDA capacity :
        IF capacity < ld THEN st
        ELSE IF GreaterThan(st.capacity_min, capacity)
             THEN [capacity_min |-> [inf |-> FALSE, v |-> capacity],
                   combos |-> <<combination>>]
        ELSE IF EqualTo(st.capacity_min, capacity)
             THEN [st EXCEPT !.combos = Append(@, combination)]
        ELSE st)

RECURSIVE fit_loop(_, _, _, _)
fit_loop(ld, combinations, i, st) ==
    IF i > Len(combinations) THEN st
    ELSE Bind(fit_loop_body(ld, combinations[i], st),
              LAMBDA st1 : fit_loop(ld, combinations, i + 1, st1))

\* SolverBase.fit_n_bins(n) of an instance holding (ld, bs).
fit_n_bins(ld, bs, k) ==
    Bind(combinations_with_replacement(bs, k, 1), LAMBDA combinations :
    Bind(fit_loop(ld, combinations, 1,
                  [capacity_min |-> Infinity, combos |-> << >>]), LAMBDA st :
        IF ~st.capacity_min.inf /\ st.capacity_min.v >= ld
        THEN st.combos
        ELSE << >>))

\* Variant of combo_choice with the comparison reversed.
combo_choice_flipped(cn, cnp1) ==
    IF sum(cn[1]) < sum(cnp1[1]) THEN cnp1 ELSE cn

\* Variant of combo_choice in which a tie favours the longer length.
combo_choice_ge(cn, cnp1) ==
    IF sum(cn[1]) >= sum(cnp1[1]) THEN cnp1 ELSE cn

\* The comparison that ends SolverCombo.solve().
combo_choice(cn, cnp1) ==
    IF sum(cn[1]) > sum(cnp1[1]) THEN cnp1 ELSE cn

\* create_solver: the solver class whose solver_type attribute matches.
create_solver(solver_type) ==
    CASE solver_type = "length"   -> "SolverLengthFirst"
      [] solver_type = "capacity" -> "SolverCapacityFirst"
      [] solver_type = "combo"    -> "SolverCombo"
      [] OTHER                    -> "None"

\* ------------------------------------------------------------------- Init
Init ==
    /\ load \in 0..MaxLoad
    /\ bins \in BinSeqs
    /\ pc = [s \in SolverTypes |-> "start"]
    /\ n = [s \in SolverTypes |-> 0]
    /\ combos = [s \in SolverTypes |-> << >>]
    /\ combos_np1 = << >>
    /\ result = [s \in SolverTypes |-> << >>]

\* ---------------------------------------------------------------- actions
\* Variant of SolverLengthFirst_enter that starts at n = 1, so that the
\* first length searched is 2.
SolverLengthFirst_enter_one ==
    /\ pc["length"] = "start"
    /\ n' = [n EXCEPT !["length"] = 1]
    /\ pc' = [pc EXCEPT !["length"] = "loop"]
    /\ UNCHANGED <<load, bins, combos, combos_np1, result>>

\* SolverLengthFirst.solve(): n = 0 before the loop.
SolverLengthFirst_enter ==
    /\ create_solver("length") = "SolverLengthFirst"
    /\ pc["length"] = "start"
    /\ n' = [n EXCEPT !["length"] = 0]
    /\ pc' = [pc EXCEPT !["length"] = "loop"]
    /\ UNCHANGED <<load, bins, combos, combos_np1, result>>

\* SolverLengthFirst.solve(): one iteration of the while loop.
SolverLengthFirst_iter ==
    /\ pc["length"] = "loop"
    /\ n["length"] < MaxN
    /\ LET n1 == n["length"] + 1 IN
       \E c \in {fit_n_bins(load, bins, n1)} :
          /\ n' = [n EXCEPT !["length"] = n1]
          /\ combos' = [combos EXCEPT !["length"] = c]
          /\ IF c # << >>
             THEN /\ result' = [result EXCEPT !["length"] = c]
                  /\ pc' = [pc EXCEPT !["length"] = "done"]
             ELSE UNCHANGED <<result, pc>>
    /\ UNCHANGED <<load, bins, combos_np1>>

\* SolverCapacityFirst.solve(): n = 0 before the loop.
SolverCapacityFirst_enter ==
    /\ create_solver("capacity") = "SolverCapacityFirst"
    /\ pc["capacity"] = "start"
    /\ n' = [n EXCEPT !["capacity"] = 0]
    /\ pc' = [pc EXCEPT !["capacity"] = "loop"]
    /\ UNCHANGED <<load, bins, combos, combos_np1, result>>

\* Variant of SolverCapacityFirst_iter that returns the first non-empty
\* result without comparing its capacity with the load.
SolverCapacityFirst_iter_any ==
    /\ pc["capacity"] = "loop"
    /\ n["capacity"] < MaxN
    /\ LET n1 == n["capacity"] + 1 IN
       \E c \in {fit_n_bins(load, bins, n1)} :
          /\ n' = [n EXCEPT !["capacity"] = n1]
          /\ combos' = [combos EXCEPT !["capacity"] = c]
          /\ IF c # << >>
             THEN /\ result' = [result EXCEPT !["capacity"] = c]
                  /\ pc' = [pc EXCEPT !["capacity"] = "done"]
             ELSE UNCHANGED <<result, pc>>
    /\ UNCHANGED <<load, bins, combos_np1>>

\* SolverCapacityFirst.solve(): one iteration of the while loop.
SolverCapacityFirst_iter ==
    /\ pc["capacity"] = "loop"
    /\ n["capacity"] < MaxN
    /\ LET n1 == n["capacity"] + 1 IN
       \E c \in {fit_n_bins(load, bins, n1)} :
          /\ n' = [n EXCEPT !["capacity"] = n1]
          /\ combos' = [combos EXCEPT !["capacity"] = c]
          /\ IF c # << >> /\ sum(c[1]) = load
             THEN /\ result' = [result EXCEPT !["capacity"] = c]
                  /\ pc' = [pc EXCEPT !["capacity"] = "done"]
             ELSE UNCHANGED <<result, pc>>
    /\ UNCHANGED <<load, bins, combos_np1>>

\* SolverCombo.solve(): n = 1 and combos_n = fit_n_bins(1) before the loop.
SolverCombo_enter ==
    /\ create_solver("combo") = "SolverCombo"
    /\ pc["combo"] = "start"
    /\ n' = [n EXCEPT !["combo"] = 1]
    /\ combos' = [combos EXCEPT !["combo"] = fit_n_bins(load, bins, 1)]
    /\ pc' = [pc EXCEPT !["combo"] = "loop"]
    /\ UNCHANGED <<load, bins, combos_np1, result>>

\* Variant of SolverCombo_iter that advances n without replacing combos_n
\* by combos_np1.
SolverCombo_iter_noswap ==
    /\ pc["combo"] = "loop"
    /\ n["combo"] + 1 <= MaxN
    /\ LET cn == combos["combo"] IN
       \E cnp1 \in {fit_n_bins(load, bins, n["combo"] + 1)} :
          /\ combos_np1' = cnp1
          /\ IF cn = << >> \/ cnp1 = << >>
             THEN /\ n' = [n EXCEPT !["combo"] = @ + 1]
                  /\ UNCHANGED <<combos, result, pc>>
             ELSE /\ result' = [result EXCEPT !["combo"] = combo_choice(cn, cnp1)]
                  /\ pc' = [pc EXCEPT !["combo"] = "done"]
                  /\ UNCHANGED <<combos, n>>
    /\ UNCHANGED <<load, bins>>

\* Variant of SolverCombo_iter that replaces combos_n by combos_np1 without
\* incrementing n.
SolverCombo_iter_noinc ==
    /\ pc["combo"] = "loop"
    /\ n["combo"] + 1 <= MaxN
    /\ LET cn == combos["combo"] IN
       \E cnp1 \in {fit_n_bins(load, bins, n["combo"] + 1)} :
          /\ combos_np1' = cnp1
          /\ IF cn = << >> \/ cnp1 = << >>
             THEN /\ combos' = [combos EXCEPT !["combo"] = cnp1]
                  /\ UNCHANGED <<n, result, pc>>
             ELSE /\ result' = [result EXCEPT !["combo"] = combo_choice(cn, cnp1)]
                  /\ pc' = [pc EXCEPT !["combo"] = "done"]
                  /\ UNCHANGED <<combos, n>>
    /\ UNCHANGED <<load, bins>>

\* SolverCombo.solve(): one iteration of the while loop.
SolverCombo_iter ==
    /\ pc["combo"] = "loop"
    /\ n["combo"] + 1 <= MaxN
    /\ LET cn == combos["combo"] IN
       \E cnp1 \in {fit_n_bins(load, bins, n["combo"] + 1)} :
          /\ combos_np1' = cnp1
          /\ IF cn = << >> \/ cnp1 = << >>
             THEN /\ combos' = [combos EXCEPT !["combo"] = cnp1]
                  /\ n' = [n EXCEPT !["combo"] = @ + 1]
                  /\ UNCHANGED <<result, pc>>
             ELSE /\ result' = [result EXCEPT !["combo"] = combo_choice(cn, cnp1)]
                  /\ pc' = [pc EXCEPT !["combo"] = "done"]
                  /\ UNCHANGED <<combos, n>>
    /\ UNCHANGED <<load, bins>>

Next ==
    \/ SolverLengthFirst_enter
    \/ SolverLengthFirst_iter
    \/ SolverCapacityFirst_enter
    \/ SolverCapacityFirst_iter
    \/ SolverCombo_enter
    \/ SolverCombo_iter

Spec == Init /\ [][Next]_vars

\* The runs in which only the Length-First and the Combo instances are
\* asked to solve.  Each solve() call made keeps running: the interpreter
\* executes the next iteration of its loop.
LengthFirstSolve == SolverLengthFirst_enter \/ SolverLengthFirst_iter

ComboSolve == SolverCombo_enter \/ SolverCombo_iter

NextLengthCombo == LengthFirstSolve \/ ComboSolve

FairSpec ==
    /\ Init
    /\ [][NextLengthCombo]_vars
    /\ WF_vars(LengthFirstSolve)
    /\ WF_vars(ComboSolve)

TypeOK ==
    /\ load \in 0..MaxLoad
    /\ bins \in BinSeqs
    /\ pc \in [SolverTypes -> {"start", "loop", "done"}]
    /\ n \in [SolverTypes -> 0..MaxN]

\* ------------------------------------------------- vocabulary of the claims
Range(s) == {s[i] : i \in 1..Len(s)}

SetMin(S) == CHOOSE x \in S : \A y \in S : x <= y

\* The total capacities of the multisets of k bins.
RECURSIVE SumsOfLen(_, _)
SumsOfLen(bs, k) ==
    IF k = 0 THEN {0}
    ELSE {x + b : x \in SumsOfLen(bs, k - 1), b \in Range(bs)}

\* Some combination of k bins can accommodate the load.
FeasibleAt(k) == \E x \in SumsOfLen(bins, k) : x >= load

\* Some combination of k bins has a capacity equal to the load.
ExactAt(k) == load \in SumsOfLen(bins, k)

\* The minimum capacity >= load of the combinations of k bins.
MinCapacityAt(k) == SetMin({x \in SumsOfLen(bins, k) : x >= load})

\* Bins is non-empty and all its capacities are positive.
PositiveBins == bins # << >> /\ \A i \in 1..Len(bins) : bins[i] > 0

\* The combinations of k bins in enumeration order.
AllCombinations(k) == combinations_with_replacement(bins, k, 1)

\* What fit_n_bins(k) is to return: the combinations of minimum feasible
\* capacity, in enumeration order.
MinimalCombinations(k) ==
    IF FeasibleAt(k)
    THEN SelectSeq(AllCombinations(k), LAMBDA t : sum(t) = MinCapacityAt(k))
    ELSE << >>

Done(s) == pc[s] = "done"
\* ------------------------------------------------------------------ claims
\* C1: the result of every fit_n_bins(k) call a solver has made is exactly
\* the sequence of the length-k combinations whose capacity is >= load and
\* is the minimum such capacity, all ties kept in enumeration order; it is
\* empty iff no length-k combination can accommodate the load, and it never
\* holds a combination of capacity < load.
C1_FitNBinsMinimal ==
    \A s \in SolverTypes :
        n[s] >= 1 =>
            /\ combos[s] = MinimalCombinations(n[s])
            /\ (combos[s] = << >>) <=> ~FeasibleAt(n[s])
            /\ \A j \in 1..Len(combos[s]) :
                  /\ Len(combos[s][j]) = n[s]
                  /\ sum(combos[s][j]) >= load

\* A search that discarded combinations below the load and above the
\* minimum, and kept two ties: load 9, bins (2,3,5), length 3.
C1_Witness ==
    /\ load = 9 /\ bins = <<2, 3, 5>>
    /\ n["capacity"] = 3
    /\ combos["capacity"] = << <<2, 2, 5>>, <<3, 3, 3>> >>

\* C2: every non-empty solution returned by any of the three strategies
\* holds combinations of one length and one total capacity, and that
\* capacity is >= load.
C2_SolutionUniform ==
    \A s \in SolverTypes :
        (Done(s) /\ result[s] # << >>) =>
            \A i, j \in 1..Len(result[s]) :
                /\ Len(result[s][i]) = Len(result[s][j])
                /\ sum(result[s][i]) = sum(result[s][j])
                /\ sum(result[s][i]) >= load

\* All three strategies returned, one of them several combinations that
\* exceed the load.
C2_Witness ==
    /\ \A s \in SolverTypes : Done(s)
    /\ \E s \in SolverTypes :
          Len(result[s]) >= 2 /\ sum(result[s][1]) > load

\* C3: when SolverLengthFirst.solve() has returned, the length of the
\* returned combinations is the least k >= 1 at which some combination can
\* accommodate the load, and the returned list is fit_n_bins at that k.
C3_LengthFirstMinimalLength ==
    Done("length") =>
        /\ result["length"] # << >>
        /\ LET k == Len(result["length"][1]) IN
              /\ k >= 1
              /\ k = n["length"]
              /\ FeasibleAt(k)
              /\ \A j \in 1..(k - 1) : ~FeasibleAt(j)
              /\ result["length"] = fit_n_bins(load, bins, k)

\* Length-First returned after searching lengths that had no feasible
\* combination.
C3_Witness ==
    /\ Done("length")
    /\ n["length"] >= 3
    /\ sum(result["length"][1]) > load

\* C4: when SolverCapacityFirst.solve() has returned, every returned
\* combination has a capacity equal to the load, and the returned list is
\* fit_n_bins at the least k >= 1 at which some combination sums exactly to
\* the load.
C4_CapacityFirstExact ==
    Done("capacity") =>
        /\ result["capacity"] # << >>
        /\ \A j \in 1..Len(result["capacity"]) :
              sum(result["capacity"][j]) = load
        /\ LET k == Len(result["capacity"][1]) IN
              /\ k >= 1
              /\ k = n["capacity"]
              /\ ExactAt(k)
              /\ \A j \in 1..(k - 1) : ~ExactAt(j)
              /\ result["capacity"] = fit_n_bins(load, bins, k)

\* Capacity-First returned at a length that follows a length with a
\* feasible combination of capacity above the load.
C4_Witness ==
    /\ Done("capacity")
    /\ n["capacity"] >= 2
    /\ FeasibleAt(n["capacity"] - 1)

\* C5: for non-empty bins of positive capacities, the capacity of the
\* solution of SolverCombo is <= the capacity of the solution of
\* SolverLengthFirst.
C5_ComboNotWorseThanLength ==
    (PositiveBins /\ Done("combo") /\ Done("length")) =>
        /\ result["combo"] # << >>
        /\ result["length"] # << >>
        /\ sum(result["combo"][1]) <= sum(result["length"][1])

\* Combo chose a longer combination of strictly lower capacity than
\* Length-First's.
C5_Witness ==
    /\ PositiveBins /\ Done("combo") /\ Done("length")
    /\ sum(result["combo"][1]) < sum(result["length"][1])
    /\ Len(result["combo"][1]) > Len(result["length"][1])

\* The least length at which some combination can accommodate the load.
MinFeasibleLength == SetMin({k \in 1..MaxN : FeasibleAt(k)})

\* The inputs of C6: the least feasible length has an exact fit.
ExactAtMinFeasibleLength ==
    /\ PositiveBins
    /\ \E k \in 1..MaxN : FeasibleAt(k)
    /\ ExactAt(MinFeasibleLength)

\* C6: for non-empty bins of positive capacities whose least feasible
\* length L has a combination summing exactly to the load, none of the three
\* strategies searches beyond L (Combo: beyond L + 1) and each returns
\* fit_n_bins(L).
C6_StrategiesAgreeOnExactFit ==
    ExactAtMinFeasibleLength =>
        \A s \in SolverTypes :
            /\ n[s] <= MinFeasibleLength
            /\ Done(s) => result[s] = MinimalCombinations(MinFeasibleLength)

\* The three strategies returned for load 11 and bins (2,3,5).
C6_Witness ==
    /\ load = 11 /\ bins = <<2, 3, 5>>
    /\ \A s \in SolverTypes : Done(s) /\ result[s] = << <<3, 3, 5>> >>
\* C7: for load 1 and bins (5), each of the three strategies halts with the
\* solution ((5,)) of length 1: none of them goes on to a second length,
\* and the value each returns is ((5,)).
C7_AllStrategiesReturnFive ==
    (load = 1 /\ bins = <<5>>) =>
        \A s \in SolverTypes :
            /\ n[s] <= 1
            /\ Done(s) => result[s] = << <<5>> >>

\* C8: with empty bins a solver obtained from create_solver fails on input
\* validation: its solve() returns nothing and never goes on incrementing n
\* to search a second length.
C8_EmptyBinsRejected ==
    bins = << >> =>
        \A s \in SolverTypes : n[s] <= 1 /\ ~Done(s)

\* fit_n_bins(k) is non-empty.
NonEmptyFit(k) == fit_n_bins(load, bins, k) # << >>

\* Length-First stopped at the first length whose search is non-empty.
LengthStoppedAtFirstNonEmpty ==
    /\ Done("length")
    /\ NonEmptyFit(n["length"])
    /\ \A j \in 1..(n["length"] - 1) : ~NonEmptyFit(j)

\* Combo stopped at the first length n at which the searches of n and n + 1
\* are both non-empty.
ComboStoppedAtFirstPair ==
    /\ Done("combo")
    /\ NonEmptyFit(n["combo"]) /\ NonEmptyFit(n["combo"] + 1)
    /\ \A j \in 1..(n["combo"] - 1) : ~(NonEmptyFit(j) /\ NonEmptyFit(j + 1))

\* C9: for a load >= 0 and non-empty bins of positive capacities, both
\* SolverLengthFirst.solve() and SolverCombo.solve() eventually return,
\* Length-First at the first length whose search is non-empty and Combo at
\* the first length n whose search and the search of n + 1 are non-empty,
\* feasibility at a length implying feasibility at the next.
C9_LengthAndComboHalt ==
    (load >= 0 /\ PositiveBins) ~>
        /\ LengthStoppedAtFirstNonEmpty
        /\ ComboStoppedAtFirstPair
        /\ \A k \in 1..(MaxN - 1) : NonEmptyFit(k) => NonEmptyFit(k + 1)

\* Both strategies returned after Combo went through several infeasible
\* lengths.
C9_Witness ==
    /\ load >= 0 /\ PositiveBins
    /\ Done("length") /\ Done("combo")
    /\ n["combo"] >= 5

\* The part of the state SolverCombo.solve() writes.
comboState == <<n["combo"], pc["combo"], combos["combo"], combos_np1,
                result["combo"]>>

\* C10: every step of the loop of SolverCombo.solve() at length n either
\* advances n by one, when fit_n_bins(n) or fit_n_bins(n + 1) is empty, or
\* returns, when both are non-empty: fit_n_bins(n + 1) if its capacity is
\* strictly lower than that of fit_n_bins(n), else fit_n_bins(n); it returns
\* ((2,2,5), (3,3,3)) for load 9 and bins (2,3,5); after the return no
\* further length is examined.
C10_ComboStep ==
    [][ /\ (pc["combo"] = "loop" /\ comboState' # comboState) =>
            LET k == n["combo"]
                fn == fit_n_bins(load, bins, k)
                fn1 == fit_n_bins(load, bins, k + 1)
            IN IF fn = << >> \/ fn1 = << >>
               THEN /\ pc'["combo"] = "loop"
                    /\ n'["combo"] = k + 1
               ELSE /\ pc'["combo"] = "done"
                    /\ n'["combo"] = k
                    /\ result'["combo"] =
                          IF sum(fn1[1]) < sum(fn[1]) THEN fn1 ELSE fn
                    /\ (load = 9 /\ bins = <<2, 3, 5>>) =>
                          result'["combo"] = << <<2, 2, 5>>, <<3, 3, 3>> >>
        /\ pc["combo"] = "done" => comboState' = comboState
      ]_vars

\* Combo returned the length-3 combinations for load 9 and bins (2,3,5)
\* after advancing from n = 1 to n = 2.
C10_Witness ==
    /\ load = 9 /\ bins = <<2, 3, 5>>
    /\ Done("combo")
    /\ n["combo"] = 2
    /\ result["combo"] = << <<2, 2, 5>>, <<3, 3, 3>> >>
====
